---- MODULE Spec2Model ----
(***************************************************************************)
(* State-machine model of the XR session lifecycle of XrManager            *)
(* (src/src/framework/xr/xr-manager.js) together with the camera           *)
(* component's clip-plane accessors and scene-map requests                 *)
(* (src/src/framework/components/camera/component.js), of the play cursor  *)
(* and the events of AnimClip                                              *)
(* (src/src/framework/anim/evaluator/anim-clip.js), and of the quads that  *)
(* drawFullscreenQuad                                                      *)
(* (src/src/scene/graphics/post-effect.js) and drawQuadWithShader /        *)
(* drawTexture (src/src/platform/graphics/simple-post-effect.js) draw on   *)
(* the graphics device.                                                    *)
(*                                                                         *)
(* Every start() that passes the synchronous checks is an "attempt"; the   *)
(* host session created for attempt a is session a.  Host promises (image  *)
(* preparation, session request, reference-space request) and host events  *)
(* (the session's end event, support-query completions) are separate       *)
(* actions, so that every interleaving the event loop allows is explored.  *)
(*                                                                         *)
(* The variable out describes the last step: what the operation or handler *)
(* invoked, in order (callbacks, notifications, host requests).            *)
(*                                                                         *)
(* Further specifications of the same module cover the support queries     *)
(* (SpecAvailability), the per-frame update() with its view pool           *)
(* (SpecFrame, SpecViews) and in sessions of every type (SpecUpdate),      *)
(* clip-plane changes (SpecClip), the session options start() builds       *)
(* (SpecOptions), the camera component's scene-map request counters        *)
(* (SpecCamera), animation clips (SpecAnim) and the quads drawn on the     *)
(* device (SpecDraw).                                                      *)
(***************************************************************************)
EXTENDS Integers, Sequences, FiniteSets, TLC

\* ---------------------------------------------------------------- bounds
\* start() calls that pass the synchronous checks
MaxAttempts == 2
\* end(callback) registrations outstanding at one time
MaxEndCalls == 1
\* support queries of one type in flight at one time
MaxQueries == 2
\* views of one viewer pose
MaxViews == 3
\* size of the scene-map request counters, in both directions
MaxRequests == 2
\* the largest deltaTime of an AnimClip._update call
MaxDelta == 3
\* how far the play cursor of one AnimClip is followed
MaxTravel == 8

\* ------------------------------------------------------------- constants
XRTYPE_INLINE == "inline"
XRTYPE_VR == "immersive-vr"
XRTYPE_AR == "immersive-ar"
Types == {XRTYPE_INLINE, XRTYPE_VR, XRTYPE_AR}
SpaceTypes == {"local", "local-floor"}
Cameras == {"camA", "camB"}
\* the start() calls the application makes: <<camera, type, spaceType>>
StartRequests == {<<"camA", XRTYPE_VR, "local-floor">>,
                  <<"camB", XRTYPE_AR, "local">>}
\* the answers the host gives to support queries during a session lifecycle:
\* devices with VR and with AR get connected
HostAnswers == {<<XRTYPE_VR, TRUE>>, <<XRTYPE_AR, TRUE>>}

\* null for strings (type, spaceType, camera) and for handles (session, ...)
NoType == "null"
NoCamera == "null"
NoSession == 0
NoErr == "null"

ErrNotAvailable == "XR is not available"
ErrAlreadyStarted == "XR session is already started"
ErrNotInitialized == "XR Session is not initialized"
\* errors that come from the host or from a sub-module
ErrNegotiation == "NegotiationFailed"
ErrReferenceSpace == "ReferenceSpaceFailed"
ErrImagePreparation == "ImagePreparationFailed"
ErrSupportQuery == "SupportQueryFailed"

\* _depthNear = 0.1 and _depthFar = 1000, in tenths
DefaultDepthNear == 1
DefaultDepthFar == 10000
\* clip planes of the two cameras (tenths): camA has the manager's defaults
InitNearClip == [c \in Cameras |-> IF c = "camA" THEN 1 ELSE 3]
InitFarClip == [c \in Cameras |-> 10000]

\* the start() calls and the clip-plane values of SpecClip
ClipRequests == {<<"camA", XRTYPE_VR, "local-floor">>}
NearValues == {1, 3}
FarValues == {10000, 5000}

\* the start() calls of SpecUpdate: a session of every type
UpdateRequests == {<<"camA", t, "local">> : t \in Types}
\* the start() calls, the frames and the sub-module flags of SpecFrame
FrameRequests == {<<"camA", XRTYPE_AR, "local">>}
\* framebufferWidth and framebufferHeight of the frame's base layer
FrameSizes == {<<2, 1>>, <<4, 2>>}
\* the viewer poses a frame can yield; NoPose: getViewerPose returns null
NoPose == 0
ViewCounts == 0..MaxViews
\* the AR sub-modules in the order update() visits them
ArSubmodules == <<"hitTest", "lightEstimation", "depthSensing", "imageTracking",
                  "planeDetection">>
\* the frames update() is called with: <<size, pose, views of the pose,
\* supported sub-modules>>; with every view count, a frame of one size with
\* pose 1 and every sub-module, and one of the other size with pose 2 and one
\* sub-module; and a frame of either size without a pose
Frames ==
    {<<<<2, 1>>, 1, n, {"hitTest", "lightEstimation", "depthSensing",
                        "imageTracking", "planeDetection"}>> : n \in ViewCounts}
    \cup {<<<<4, 2>>, 2, n, {"lightEstimation"}>> : n \in ViewCounts}
    \cup {<<size, NoPose, 0, {}>> : size \in FrameSizes}

\* the frames of SpecUpdate: one or two views, with every sub-module, two of
\* them or none supported, and a frame without a pose
UpdateFrames ==
    {<<<<2, 1>>, 1, 1, {"hitTest", "lightEstimation", "depthSensing",
                        "imageTracking", "planeDetection"}>>,
     <<<<2, 1>>, 2, 2, {"hitTest", "depthSensing"}>>,
     <<<<4, 2>>, 1, 1, {}>>,
     <<<<2, 1>>, NoPose, 0, {}>>}

\* the frames of SpecViews: a pose of every view count, and no pose
ViewFrames ==
    {<<<<2, 1>>, 1, n, {}>> : n \in ViewCounts} \cup {<<<<2, 1>>, NoPose, 0, {}>>}

\* XRDEPTHSENSINGUSAGE_CPU, XRDEPTHSENSINGFORMAT_L8A8; NoPref: not given
XRDEPTHSENSINGUSAGE_CPU == "cpu-optimized"
XRDEPTHSENSINGFORMAT_L8A8 == "luminance-alpha"
NoPref == "undefined"
\* options.depthSensing: <<>> when absent, else one record
DepthSensingOptions ==
    {<<>>,
     <<[usagePreference |-> "gpu-optimized", dataFormatPreference |-> NoPref]>>,
     <<[usagePreference |-> "cpu-optimized", dataFormatPreference |-> "float32"]>>,
     <<[usagePreference |-> NoPref, dataFormatPreference |-> "luminance-alpha"]>>}
\* options.optionalFeatures (absent: <<>>)
CallerFeatures == {<<>>, <<"hand-tracking", "anchors">>}
\* the options argument of start(); a property that is absent is FALSE / <<>>
StartOptionsSet ==
    [imageTracking : BOOLEAN, planeDetection : BOOLEAN,
     depthSensing : DepthSensingOptions, optionalFeatures : CallerFeatures]
\* imageTracking.supported, domOverlay.supported && domOverlay.root,
\* depthSensing.supported
SubmoduleFlags == [imageTracking : BOOLEAN, domOverlay : BOOLEAN,
                   depthSensing : BOOLEAN]

\* what prepareImages hands to its callback as trackedImages; NoImages: null
NoImages == "null"
PreparedImages == {NoImages, "bitmaps"}

Attempts == 1..MaxAttempts

\* CULLFACE_NONE, CULLFACE_BACK
CULLFACE_NONE == 0
CULLFACE_BACK == 1
\* render targets (NoTarget: the frame buffer), and the width and height of
\* each; the size of the device's frame buffer
NoTarget == "null"
RenderTargets == {NoTarget, "rtA"}
TargetSize == [t \in {"rtA"} |-> <<4, 2>>]
DeviceSize == <<8, 4>>
\* the rect argument of drawFullscreenQuad (NoRect: absent), in halves of the
\* target's size, and the rect and scissorRect arguments of drawQuadWithShader,
\* in pixels
NoRect == <<>>
NormalizedRects == {NoRect, <<1, 0, 1, 2>>}
PixelRects == {NoRect, <<1, 1, 2, 2>>}

\* the tracks of SpecAnim: duration and the times of the track's events, which
\* an AnimTrack keeps sorted by time
Tracks ==
    {[duration |-> 0, events |-> <<>>],
     [duration |-> 0, events |-> <<0>>],
     [duration |-> 2, events |-> <<1, 1>>],
     [duration |-> 3, events |-> <<0, 1, 3>>]}
\* playback speeds and the deltaTime of _update
AnimSpeeds == -1..2
Deltas == 0..MaxDelta

VARIABLES
    available,        \* XrManager._available
    type,             \* XrManager._type
    spaceType,        \* XrManager._spaceType
    session,          \* XrManager._session
    referenceSpace,   \* XrManager._referenceSpace (the session it belongs to)
    camera,           \* XrManager._camera
    depthNear,        \* XrManager._depthNear
    depthFar,         \* XrManager._depthFar
    width,            \* XrManager._width
    height,           \* XrManager._height
    views,            \* XrManager.views
    viewsPool,        \* XrManager.viewsPool
    endOnce,          \* callbacks registered by once('end', callback)
    cameraXr,         \* per camera: camera.camera.xr === manager
    nearClip,         \* per camera: nearClip
    farClip,          \* per camera: farClip
    clipListeners,    \* <<camera, a>>: onClipPlanesChange of session a is on camera
    attempts,         \* per attempt: the arguments of start(), its progress, and
                      \* its host session: "none", "live", "ending", "ended"
    sessionListeners, \* sessions that carry onEnd / onVisibilityChange
    queries,          \* per type: isSessionSupported(type) promises in flight
    allocated,        \* view records created so far; record i is the i-th one
    viewData,         \* per view record: the pose last written into it (0: none)
    localPose,        \* XrManager._localPosition / _localRotation (0: initial)
    nodePose,         \* per camera: local transform of camera.camera._node
    frameLog,         \* history of the current session: pool size and records
                      \* created when it was set, largest view count seen
    renderSceneDepthMap,     \* CameraComponent._renderSceneDepthMap
    renderSceneColorMap,     \* CameraComponent._renderSceneColorMap
    sceneDepthMapRequested,  \* CameraComponent._sceneDepthMapRequested
    sceneColorMapRequested,  \* CameraComponent._sceneColorMapRequested
    animClip,             \* AnimClip: _time, _speed, _playing, _loop, _eventCursor
                      \* and _snapshot._time
    track,            \* AnimClip._track: duration and the times of its events
    clipLog,          \* history of the clip: its initial time, the distance its
                      \* cursor was moved, how often each event was fired
    device,           \* GraphicsDevice: render target, viewport (vx, vy, vw, vh),
                      \* scissor (sx, sy, sw, sh), blending, depth test, depth
                      \* write, cull mode, colour write mask, vertex buffer,
                      \* shader and the value of constantTexSource
    out               \* what the last step invoked, in order

managerVars == <<available, type, spaceType, session, referenceSpace,
                 camera, depthNear, depthFar, width, height, views, viewsPool,
                 endOnce>>
cameraVars == <<cameraXr, nearClip, farClip, clipListeners>>
hostVars == <<attempts, sessionListeners>>
frameVars == <<allocated, viewData, localPose, nodePose, frameLog>>
componentVars == <<renderSceneDepthMap, renderSceneColorMap,
                   sceneDepthMapRequested, sceneColorMapRequested>>
animVars == <<animClip, track, clipLog>>
\* what no step of the XrManager touches
notXr == <<componentVars, animVars, device>>
\* what no step of the camera component's scene-map requests touches
notComponent == <<managerVars, cameraVars, hostVars, queries, frameVars,
                  animVars, device>>
\* what no step of an AnimClip touches
notAnim == <<managerVars, cameraVars, hostVars, queries, frameVars,
             componentVars, device>>
\* what no quad drawn on the graphics device touches
notDevice == <<managerVars, cameraVars, hostVars, queries, frameVars,
               componentVars, animVars>>
vars == <<managerVars, cameraVars, hostVars, queries, frameVars, componentVars,
          animVars, device, out>>

\* ------------------------------------------------------- observable output
Out(k, name, s, err, near, far, base) ==
    [k |-> k, name |-> name, s |-> s, err |-> err, near |-> near, far |-> far,
     base |-> base]
\* callback(err) of the start() of attempt s (0: a start that failed at once),
\* or of the end() registered while session s was set
CallbackOut(of, s, err) == Out("callback", of, s, err, 0, 0, FALSE)
\* this.fire(name, ...) in a handler of attempt / session s
FireOut(name, s, err) == Out("fire", name, s, err, 0, 0, FALSE)
\* a request to the host or to a collaborator
HostOut(name, s) == Out("host", name, s, NoErr, 0, 0, FALSE)
\* session.updateRenderState({ [baseLayer,] depthNear, depthFar })
UpdateRenderStateOut(s, near, far, base) ==
    Out("host", "updateRenderState", s, NoErr, near, far, base)
\* what a listener of 'end' reads from xr.camera and xr.active when it is called
EndObservedOut(cam, act) ==
    [k |-> "observe", name |-> "end", camera |-> cam, active |-> act]
\* navigator.xr.requestSession(type, opts) after image preparation; tracked:
\* whether opts.trackedImages is set
TrackedSessionOut(a, tracked) ==
    [k |-> "host", name |-> "requestSession", s |-> a, trackedImages |-> tracked]
\* navigator.xr.isSessionSupported(type)
QueryOut(t) == [k |-> "host", name |-> "isSessionSupported", type |-> t]
\* this.fire('available', type, available); flag: what isAvailable(type)
\* returns to the listener
AvailableOut(t, v, flag) ==
    [k |-> "fire", name |-> "available", type |-> t, available |-> v,
     isAvailable |-> flag]
\* this.fire('available:' + type, available)
AvailableTypeOut(t, v, flag) ==
    [k |-> "fire", name |-> "available:" \o t, available |-> v,
     isAvailable |-> flag]

\* --------------------------------------------------------------- helpers
Range(seq) == {seq[i] : i \in 1..Len(seq)}
Max(x, y) == IF x >= y THEN x ELSE y
NumAttempts == Cardinality({a \in Attempts : attempts[a].phase # "unused"})
UnusedAttempt == [cam |-> NoCamera, type |-> NoType, spaceType |-> NoType,
                  phase |-> "unused", host |-> "none"]
\* an attempt none of whose handlers can run any more: its closures are gone
DoneAttempt == [cam |-> NoCamera, type |-> NoType, spaceType |-> NoType,
                phase |-> "done", host |-> "none"]
\* attempt a moves to phase p and its host session to state h
SetAttempt(a, p, h) ==
    [attempts EXCEPT ![a] =
        IF p \notin {"preparing", "requesting", "binding"}
           /\ h \notin {"live", "ending"}
        THEN DoneAttempt
        ELSE [@ EXCEPT !.phase = p, !.host = h]]

\* the closure variable `failed` of _onSessionStart
Failed(a) == attempts[a].phase = "refFailed"

\* the 'end' notification was emitted for session a before its start was settled
EndedUnstarted(a) == attempts[a].phase = "binding" /\ attempts[a].host = "ended"

\* XrManager.active
Active == session # NoSession

\* XrManager._setClipPlanes: the new bound depth range and the render-state
\* update it issues
SetClipPlanes(near, far) ==
    IF depthNear = near /\ depthFar = far
    THEN [near |-> depthNear, far |-> depthFar, out |-> <<>>]
    ELSE [near |-> near, far |-> far,
          out |-> IF session = NoSession
                  THEN <<>>
                  ELSE <<UpdateRenderStateOut(session, near, far, FALSE)>>]

\* start() without the availability check
StartPrecheckNoAvailability(t) ==
    IF session # NoSession THEN ErrAlreadyStarted ELSE NoErr

\* start() without the check for a running session
StartPrecheckNoSession(t) ==
    IF ~available[t] THEN ErrNotAvailable ELSE NoErr

\* end() without the check for a running session
EndPrecheckMissing == NoErr

\* the synchronous checks of start()
StartPrecheck(t) ==
    IF ~available[t] THEN ErrNotAvailable
    ELSE IF session # NoSession THEN ErrAlreadyStarted
    ELSE NoErr

\* the synchronous check of end()
EndPrecheck ==
    IF session = NoSession THEN ErrNotInitialized ELSE NoErr

\* session.end(): the host shuts the session down and queues its end event;
\* on a session that has ended already the call only returns a rejected promise
HostEnd(h) == IF h = "live" THEN "ending" ELSE h

\* this._session.end() in end(): with no session the call throws
EndSession(s) ==
    IF s = NoSession
    THEN attempts
    ELSE SetAttempt(s, attempts[s].phase, HostEnd(attempts[s].host))

\* the history of a session that is set while the pool holds pool records and
\* created records have been created, before its first frame
NoFrames(pool, created) == [pool0 |-> pool, allocated0 |-> created, maxViews |-> 0]

\* ------------------------------------------------------------------ Init
\* the constructor has issued one support query per session type
Init ==
    /\ available = [t \in Types |-> FALSE]
    /\ type = NoType
    /\ spaceType = NoType
    /\ session = NoSession
    /\ referenceSpace = NoSession
    /\ camera = NoCamera
    /\ depthNear = DefaultDepthNear
    /\ depthFar = DefaultDepthFar
    /\ width = 0
    /\ height = 0
    /\ views = <<>>
    /\ viewsPool = <<>>
    /\ endOnce = <<>>
    /\ cameraXr = [c \in Cameras |-> FALSE]
    /\ nearClip = InitNearClip
    /\ farClip = InitFarClip
    /\ clipListeners = {}
    /\ attempts = [a \in Attempts |-> UnusedAttempt]
    /\ sessionListeners = {}
    /\ queries = [t \in Types |-> 1]
    /\ allocated = 0
    /\ viewData = <<>>
    /\ localPose = 0
    /\ nodePose = [c \in Cameras |-> 0]
    /\ frameLog = NoFrames(0, 0)
    /\ renderSceneDepthMap = 0
    /\ renderSceneColorMap = 0
    /\ sceneDepthMapRequested = FALSE
    /\ sceneColorMapRequested = FALSE
    /\ track = [duration |-> 0, events |-> <<>>]
    /\ animClip = [time |-> 0, speed |-> 1, playing |-> FALSE, loop |-> FALSE,
               eventCursor |-> 0, snapshot |-> -1]
    /\ clipLog = [start |-> 0, travelled |-> 0, fired |-> <<>>]
    /\ device = [renderTarget |-> NoTarget, viewport |-> <<0, 0, 8, 4>>,
                 scissor |-> <<0, 0, 8, 4>>, blending |-> FALSE,
                 depthTest |-> TRUE, depthWrite |-> TRUE,
                 cullMode |-> CULLFACE_BACK,
                 colorWrite |-> <<TRUE, TRUE, TRUE, TRUE>>,
                 vertexBuffer |-> "none", shader |-> "none",
                 texSource |-> "none"]
    /\ out = <<>>

\* ------------------------------------------------------------- operations
\* XrManager.start(camera, type, spaceType, { callback }); prepare: whether
\* imageTracking.supported && imageTracking.images.length holds at the call
Start(cam, t, sp, prepare) ==
    LET pre == StartPrecheck(t)
        a == NumAttempts + 1
        clip == SetClipPlanes(nearClip[cam], farClip[cam])
    IN  IF pre # NoErr
        THEN /\ out' = <<CallbackOut("start", 0, pre)>>
             /\ UNCHANGED <<managerVars, cameraVars, hostVars, queries,
                            frameVars, notXr>>
        ELSE /\ NumAttempts < MaxAttempts
             /\ UNCHANGED <<queries, frameVars, notXr>>
             /\ camera' = cam
             /\ cameraXr' = [cameraXr EXCEPT ![cam] = TRUE]
             /\ type' = t
             /\ spaceType' = sp
             /\ depthNear' = clip.near
             /\ depthFar' = clip.far
             /\ attempts' = [attempts EXCEPT ![a] =
                    [cam |-> cam, type |-> t, spaceType |-> sp,
                     phase |-> IF prepare THEN "preparing" ELSE "requesting",
                     host |-> "none"]]
             /\ out' = clip.out \o
                    <<IF prepare THEN HostOut("prepareImages", a)
                                 ELSE HostOut("requestSession", a)>>
             /\ UNCHANGED <<available, session, referenceSpace, width,
                            height, views, viewsPool, endOnce, nearClip, farClip,
                            clipListeners, sessionListeners>>

\* session options that carry trackedImages whatever was prepared
TrackedImagesAlwaysAttached(prepared) == TRUE

\* `if (trackedImages !== null) opts.trackedImages = trackedImages`
TrackedImagesAttached(prepared) == prepared # NoImages

\* the callback start() passes to imageTracking.prepareImages: (err,
\* trackedImages); ok: err is null
PrepareImagesDone(a, ok, prepared) ==
    /\ attempts[a].phase = "preparing"
    /\ IF ok
       THEN /\ attempts' = SetAttempt(a, "requesting", "none")
            /\ out' = <<TrackedSessionOut(a, TrackedImagesAttached(prepared))>>
       ELSE /\ attempts' = SetAttempt(a, "prepFailed", "none")
            /\ out' = <<CallbackOut("start", a, ErrImagePreparation),
                        FireOut("error", a, ErrImagePreparation)>>
    /\ UNCHANGED <<managerVars, cameraVars, sessionListeners, queries,
                   frameVars, notXr>>

\* requestSession(...).then: _onSessionStart(session, spaceType, callback).
\* With _camera null, this._camera.on throws; the chained .catch handler then
\* throws at its first statement, so nothing else runs.
RequestSessionResolve(a) ==
    /\ attempts[a].phase = "requesting"
    /\ session' = a
    /\ frameLog' = NoFrames(Len(viewsPool), allocated)
    /\ sessionListeners' = sessionListeners \cup {a}
    /\ IF camera = NoCamera
       THEN /\ attempts' = SetAttempt(a, "threw", "live")
            /\ out' = <<>>
            /\ UNCHANGED clipListeners
       ELSE /\ attempts' = SetAttempt(a, "binding", "live")
            /\ clipListeners' = clipListeners \cup {<<camera, a>>}
            /\ out' = <<UpdateRenderStateOut(a, depthNear, depthFar, TRUE),
                        HostOut("requestReferenceSpace", a)>>
    /\ UNCHANGED <<available, type, spaceType, referenceSpace, camera, depthNear,
                   depthFar, width, height, views, viewsPool, endOnce, cameraXr,
                   nearClip, farClip, queries, allocated, viewData, localPose,
                   nodePose, notXr>>

\* requestSession(...).catch; with _camera null its first statement throws
RequestSessionReject(a) ==
    /\ attempts[a].phase = "requesting"
    /\ IF camera = NoCamera
       THEN /\ attempts' = SetAttempt(a, "threw", "none")
            /\ out' = <<>>
            /\ UNCHANGED <<cameraXr, camera, type, spaceType>>
       ELSE /\ attempts' = SetAttempt(a, "rejected", "none")
            /\ cameraXr' = [cameraXr EXCEPT ![camera] = FALSE]
            /\ camera' = NoCamera
            /\ type' = NoType
            /\ spaceType' = NoType
            /\ out' = <<CallbackOut("start", a, ErrNegotiation),
                        FireOut("error", a, ErrNegotiation)>>
    /\ UNCHANGED <<available, session, referenceSpace, depthNear,
                   depthFar, width, height, views, viewsPool, endOnce, nearClip,
                   farClip, clipListeners, sessionListeners, queries, frameVars,
                   notXr>>

\* session.requestReferenceSpace(spaceType).then
ReferenceSpaceResolve(a) ==
    /\ attempts[a].phase = "binding"
    /\ referenceSpace' = a
    /\ attempts' = SetAttempt(a, "started", attempts[a].host)
    /\ out' = <<HostOut("tick", 0), CallbackOut("start", a, NoErr),
                FireOut("start", a, NoErr)>>
    /\ UNCHANGED <<available, type, spaceType, session, camera,
                   depthNear, depthFar, width, height, views, viewsPool, endOnce,
                   cameraVars, sessionListeners, queries, frameVars, notXr>>

\* session.requestReferenceSpace(spaceType).catch
ReferenceSpaceReject(a) ==
    /\ attempts[a].phase = "binding"
    /\ attempts' = SetAttempt(a, "refFailed", HostEnd(attempts[a].host))
    /\ out' = <<HostOut("end", a), CallbackOut("start", a, ErrReferenceSpace),
                FireOut("error", a, ErrReferenceSpace)>>
    /\ UNCHANGED <<managerVars, cameraVars, sessionListeners, queries,
                   frameVars, notXr>>

\* the once('end') callbacks that fire('end') invokes, in registration order
EndCallbacks == [i \in 1..Len(endOnce) |-> CallbackOut("end", endOnce[i], NoErr)]

\* the session's end event: onEnd of _onSessionStart.  fire('end') runs after
\* the camera has been released and before _session is reset, which is what
\* its listeners observe.  this.views = [] drops the
\* view records of the list: nothing refers to them any more, and their
\* content is forgotten.
OnEnd(a) ==
    /\ attempts[a].host \in {"live", "ending"}
    /\ a \in sessionListeners
    /\ attempts' = SetAttempt(a, attempts[a].phase, "ended")
    /\ IF camera # NoCamera
       THEN /\ clipListeners' = clipListeners \ {<<camera, a>>}
            /\ cameraXr' = [cameraXr EXCEPT ![camera] = FALSE]
            /\ camera' = NoCamera
       ELSE UNCHANGED <<clipListeners, cameraXr, camera>>
    /\ sessionListeners' = sessionListeners \ {a}
    /\ IF ~Failed(a)
       THEN /\ out' = <<FireOut("end", a, NoErr),
                        EndObservedOut(camera', session # NoSession)>>
                      \o EndCallbacks \o <<HostOut("tick", 0)>>
            /\ endOnce' = <<>>
       ELSE /\ out' = <<HostOut("tick", 0)>>
            /\ UNCHANGED endOnce
    /\ session' = NoSession
    /\ referenceSpace' = NoSession
    /\ views' = <<>>
    /\ width' = 0
    /\ height' = 0
    /\ type' = NoType
    /\ spaceType' = NoType
    /\ viewData' = [i \in 1..allocated |->
                        IF i \in Range(views) THEN 0 ELSE viewData[i]]
    /\ UNCHANGED <<available, depthNear, depthFar, viewsPool, nearClip,
                   farClip, queries, allocated, localPose, nodePose, frameLog,
                   notXr>>

\* XrManager.end(callback); cb: whether a callback is passed
End(cb) ==
    LET pre == EndPrecheck
    IN  IF pre # NoErr
        THEN /\ out' = IF cb THEN <<CallbackOut("end", 0, pre)>> ELSE <<>>
             /\ UNCHANGED <<managerVars, cameraVars, hostVars, queries,
                            frameVars, notXr>>
        ELSE /\ cb => Len(endOnce) < MaxEndCalls
             /\ UNCHANGED <<queries, frameVars, notXr>>
             /\ endOnce' = IF cb THEN Append(endOnce, session) ELSE endOnce
             /\ attempts' = EndSession(session)
             /\ out' = <<HostOut("end", session)>>
             /\ UNCHANGED <<available, type, spaceType, session,
                            referenceSpace, camera, depthNear, depthFar, width,
                            height, views, viewsPool, cameraVars,
                            sessionListeners>>

\* _deviceAvailabilityCheck(), run by the constructor and at every
\* 'devicechange' of navigator.xr: one support query per session type
DeviceAvailabilityCheck ==
    /\ \A t \in Types : queries[t] < MaxQueries
    /\ queries' = [t \in Types |-> queries[t] + 1]
    /\ out' = <<QueryOut(XRTYPE_INLINE), QueryOut(XRTYPE_VR), QueryOut(XRTYPE_AR)>>
    /\ UNCHANGED <<managerVars, cameraVars, hostVars, frameVars, notXr>>

\* a support query that notifies at every completion
SupportUnchangedNever(t, v) == FALSE

\* a flag that stays set once a query has reported true
ResolvedFlagsSticky(t, v) == [available EXCEPT ![t] = @ \/ v]

\* a support query fires nothing when the flag has the value it reports
SupportUnchanged(t, v) == available[t] = v

\* the flags after a support query for type t has reported v
ResolvedFlags(t, v) == [available EXCEPT ![t] = v]

\* navigator.xr.isSessionSupported(type).then, for one of the queries in flight
SessionSupportResolve(t, v) ==
    /\ queries[t] > 0
    /\ queries' = [queries EXCEPT ![t] = @ - 1]
    /\ IF SupportUnchanged(t, v)
       THEN /\ out' = <<>>
            /\ UNCHANGED available
       ELSE /\ available' = ResolvedFlags(t, v)
            /\ out' = <<AvailableOut(t, v, available'[t]),
                        AvailableTypeOut(t, v, available'[t])>>
    /\ UNCHANGED <<type, spaceType, session, referenceSpace, camera,
                   depthNear, depthFar, width, height, views, viewsPool, endOnce,
                   cameraVars, hostVars, frameVars, notXr>>

\* navigator.xr.isSessionSupported(type).catch, for one of the queries in flight
SessionSupportReject(t) ==
    /\ queries[t] > 0
    /\ queries' = [queries EXCEPT ![t] = @ - 1]
    /\ out' = <<FireOut("error", 0, ErrSupportQuery)>>
    /\ UNCHANGED <<managerVars, cameraVars, hostVars, frameVars, notXr>>

\* CameraComponent's nearClip / farClip setter: it stores the value in the
\* render camera and notifies nobody
SetClip(cam, name, v) ==
    /\ nearClip' = IF name = "nearClip" THEN [nearClip EXCEPT ![cam] = v]
                                        ELSE nearClip
    /\ farClip' = IF name = "farClip" THEN [farClip EXCEPT ![cam] = v]
                                      ELSE farClip
    /\ out' = <<>>
    /\ UNCHANGED <<managerVars, cameraXr, clipListeners, hostVars, queries,
                   frameVars, notXr>>

\* camera cam emits set_nearClip or set_farClip: every onClipPlanesChange
\* registered on it runs; the first one binds the bound camera's clip planes,
\* the others find them equal.  With _camera null the listener throws.
OnClipPlanesChange(cam) ==
    LET clip == SetClipPlanes(nearClip[camera], farClip[camera])
    IN  /\ \E a \in Attempts : <<cam, a>> \in clipListeners
        /\ IF camera = NoCamera
           THEN /\ out' = <<>>
                /\ UNCHANGED <<depthNear, depthFar>>
           ELSE /\ depthNear' = clip.near
                /\ depthFar' = clip.far
                /\ out' = clip.out
        /\ UNCHANGED <<available, type, spaceType, session,
                       referenceSpace, camera, width, height, views, viewsPool,
                       endOnce, cameraVars, hostVars, queries, frameVars, notXr>>


\* ------------------------------------------------------------ update(frame)
\* update(): return value, an exception that leaves it, and its requests
ReturnOut(v) == [k |-> "return", name |-> "update", value |-> v]
ThrowOut(at) == [k |-> "throw", name |-> at]
SetResolutionOut(w, h) ==
    [k |-> "host", name |-> "setResolution", width |-> w, height |-> h]
SubmoduleOut(m) == [k |-> "update", name |-> m]
\* layer.getViewport(pose.views[i]) for the i-th view of the pose, whose
\* result is written into the record views[i] (0: undefined)
ViewportOut(i, rec) == [k |-> "host", name |-> "getViewport", view |-> i,
                        record |-> rec]
\* _camera.camera._node.setLocalPosition / setLocalRotation with the pose
NodeOut(cam, pose) == [k |-> "host", name |-> "setLocalTransform",
                       camera |-> cam, pose |-> pose]

\* the loop `for (i = 0; i <= lengthNew - this.views.length; i++)` that takes
\* views from the pool, or creates them, and pushes them to the list: the list
\* grows while the loop runs, and its bound with it
RECURSIVE GrowViews(_, _, _, _, _)
GrowViews(vs, pool, created, i, lengthNew) ==
    IF i <= lengthNew - Len(vs)
    THEN IF pool # <<>>
         THEN GrowViews(Append(vs, pool[Len(pool)]),
                        SubSeq(pool, 1, Len(pool) - 1), created, i + 1, lengthNew)
         ELSE GrowViews(Append(vs, created + 1), pool, created + 1, i + 1,
                        lengthNew)
    ELSE [views |-> vs, pool |-> pool, allocated |-> created]

\* the loop `for (i = 0; i < this.views.length - lengthNew; i++)` that moves
\* views from the end of the list to the pool
RECURSIVE ShrinkViews(_, _, _, _, _)
ShrinkViews(vs, pool, created, i, lengthNew) ==
    IF i < Len(vs) - lengthNew
    THEN ShrinkViews(SubSeq(vs, 1, Len(vs) - 1), Append(pool, vs[Len(vs)]),
                     created, i + 1, lengthNew)
    ELSE [views |-> vs, pool |-> pool, allocated |-> created]

\* a resize that takes views from the pool without removing them from it
ResizeViewsKeepingPool(lengthNew) ==
    IF lengthNew > Len(views)
    THEN [GrowViews(views, viewsPool, allocated, 0, lengthNew)
             EXCEPT !.pool = viewsPool]
    ELSE ShrinkViews(views, viewsPool, allocated, 0, lengthNew)

\* the view list, the pool and the records created after update() has
\* resized the list for a pose of lengthNew views
ResizeViews(lengthNew) ==
    IF lengthNew > Len(views)
    THEN GrowViews(views, viewsPool, allocated, 0, lengthNew)
    ELSE ShrinkViews(views, viewsPool, allocated, 0, lengthNew)

\* a host that yields a pose for any reference space
ViewerPoseNeverThrows == FALSE

\* frame.getViewerPose(this._referenceSpace) throws: the reference space is
\* null or belongs to another session than the frame
ViewerPoseThrows == referenceSpace # session

\* the loop over pose.views that writes view i into views[i]: it stops with an
\* exception at the first view for which the list has no record
WrittenViews(vs, n) ==
    [i \in 1..(IF n <= Len(vs) THEN n ELSE Len(vs) + 1) |->
        ViewportOut(i, IF i <= Len(vs) THEN vs[i] ELSE 0)]

\* update() with input.update(frame) moved behind the AR sub-modules
UpdatedSubmodulesInputLast(sup) ==
    (IF type = XRTYPE_AR
     THEN [i \in 1..Len(SelectSeq(ArSubmodules, LAMBDA m : m \in sup)) |->
              SubmoduleOut(SelectSeq(ArSubmodules, LAMBDA m : m \in sup)[i])]
     ELSE <<>>)
    \o <<SubmoduleOut("input")>>

\* the sub-modules update() updates after the views, in order
UpdatedSubmodules(sup) ==
    <<SubmoduleOut("input")>> \o
    (IF type = XRTYPE_AR
     THEN [i \in 1..Len(SelectSeq(ArSubmodules, LAMBDA m : m \in sup)) |->
              SubmoduleOut(SelectSeq(ArSubmodules, LAMBDA m : m \in sup)[i])]
     ELSE <<>>)

\* XrManager.update(frame).  The frame has a base layer of the given size and
\* yields the pose `pose` with n views (NoPose: none); sup are the supported
\* sub-modules.  getViewerPose throws for a reference space that is null or
\* belongs to another session; views[i] of a list that is too short is
\* undefined, and so is _camera when it is null: reading a property of either
\* throws.
Update(size, pose, n, sup) ==
    LET resize == (width # size[1] \/ height # size[2])
        resOut == IF resize THEN <<SetResolutionOut(size[1], size[2])>> ELSE <<>>
        r == ResizeViews(n)
        written == {r.views[j] : j \in 1..(IF n < Len(r.views) THEN n
                                                               ELSE Len(r.views))}
    IN  IF session = NoSession
        THEN /\ out' = <<ReturnOut(FALSE)>>
             /\ UNCHANGED <<managerVars, cameraVars, hostVars, queries,
                            frameVars, notXr>>
        ELSE /\ width' = IF resize THEN size[1] ELSE width
             /\ height' = IF resize THEN size[2] ELSE height
             /\ UNCHANGED <<available, type, spaceType, session, referenceSpace,
                            camera, depthNear, depthFar, endOnce, cameraVars,
                            hostVars, queries, notXr>>
             /\ IF ViewerPoseThrows
                THEN /\ out' = resOut \o <<ThrowOut("getViewerPose")>>
                     /\ UNCHANGED <<views, viewsPool, frameVars>>
                ELSE IF pose = NoPose
                THEN /\ out' = resOut \o <<ReturnOut(FALSE)>>
                     /\ UNCHANGED <<views, viewsPool, frameVars>>
                ELSE /\ views' = r.views
                     /\ viewsPool' = r.pool
                     /\ allocated' = r.allocated
                     /\ frameLog' = [frameLog EXCEPT !.maxViews = Max(@, n)]
                     /\ localPose' = pose
                     /\ viewData' = [i \in 1..r.allocated |->
                            IF i \in written THEN pose
                            ELSE IF i <= allocated THEN viewData[i] ELSE 0]
                     /\ IF Len(r.views) < n
                        THEN /\ out' = resOut \o WrittenViews(r.views, n)
                                       \o <<ThrowOut("views[i]")>>
                             /\ UNCHANGED nodePose
                        ELSE IF camera = NoCamera
                        THEN /\ out' = resOut \o WrittenViews(r.views, n)
                                       \o <<ThrowOut("_camera")>>
                             /\ UNCHANGED nodePose
                        ELSE /\ nodePose' = [nodePose EXCEPT ![camera] = pose]
                             /\ out' = resOut \o WrittenViews(r.views, n)
                                       \o <<NodeOut(camera, pose)>>
                                       \o UpdatedSubmodules(sup)
                                       \o <<FireOut("update", session, NoErr),
                                            ReturnOut(TRUE)>>

\* ------------------------------------------------- start(): session options
\* the call start(camera, type, spaceType, options) and the sub-module flags it
\* finds
StartCallOut(t, sp, options, sup) ==
    [k |-> "call", name |-> "start", type |-> t, spaceType |-> sp,
     options |-> options, sup |-> sup]
\* what start() passes to navigator.xr.requestSession
RequestSessionOut(t, opts) ==
    [k |-> "host", name |-> "requestSession", type |-> t, options |-> opts]

\* array.indexOf(x), counted from 1; 0: not found
IndexOf(seq, x) ==
    IF \E i \in 1..Len(seq) : seq[i] = x
    THEN CHOOSE i \in 1..Len(seq) : seq[i] = x /\ \A j \in 1..(i - 1) : seq[j] # x
    ELSE 0

\* array.splice(ind, 1)
Splice(seq, ind) == SubSeq(seq, 1, ind - 1) \o SubSeq(seq, ind + 1, Len(seq))

\* a preference list that keeps the caller's preference twice
PreferenceListKeepingDuplicate(defaults, pref) ==
    IF pref = NoPref THEN defaults ELSE <<pref>> \o defaults

\* AR features with plane-detection pushed before image-tracking
ArFeaturesSwapped(options, sup) ==
    <<"light-estimation", "hit-test">>
    \o (IF options.planeDetection THEN <<"plane-detection">> ELSE <<>>)
    \o (IF options.imageTracking /\ sup.imageTracking
        THEN <<"image-tracking">> ELSE <<>>)
    \o (IF sup.domOverlay THEN <<"dom-overlay">> ELSE <<>>)
    \o (IF options.depthSensing # <<>> /\ sup.depthSensing
        THEN <<"depth-sensing">> ELSE <<>>)

\* the preference list sent for depth sensing: the defaults, with the caller's
\* preference (if given) taken out and put in front
PreferenceList(defaults, pref) ==
    IF pref = NoPref
    THEN defaults
    ELSE LET ind == IndexOf(defaults, pref)
         IN  <<pref>> \o (IF ind # 0 THEN Splice(defaults, ind) ELSE defaults)

\* the optional features start() pushes for an AR session, in order
ArFeatures(options, sup) ==
    <<"light-estimation", "hit-test">>
    \o (IF options.imageTracking /\ sup.imageTracking
        THEN <<"image-tracking">> ELSE <<>>)
    \o (IF options.planeDetection THEN <<"plane-detection">> ELSE <<>>)
    \o (IF sup.domOverlay THEN <<"dom-overlay">> ELSE <<>>)
    \o (IF options.depthSensing # <<>> /\ sup.depthSensing
        THEN <<"depth-sensing">> ELSE <<>>)

\* the optional features start() pushes for a VR session
VrFeatures == <<"hand-tracking">>

\* opts of start(): requiredFeatures, optionalFeatures, whether domOverlay is
\* set, and depthSensing (<<>> when not set)
SessionOptions(t, sp, options, sup) ==
    [requiredFeatures |-> <<sp>>,
     optionalFeatures |->
        (IF t = XRTYPE_AR THEN ArFeatures(options, sup)
         ELSE IF t = XRTYPE_VR THEN VrFeatures
         ELSE <<>>) \o options.optionalFeatures,
     domOverlay |-> (t = XRTYPE_AR /\ sup.domOverlay),
     depthSensing |->
        IF t = XRTYPE_AR /\ options.depthSensing # <<>> /\ sup.depthSensing
        THEN <<[usagePreference |->
                    PreferenceList(<<XRDEPTHSENSINGUSAGE_CPU>>,
                                   options.depthSensing[1].usagePreference),
                dataFormatPreference |->
                    PreferenceList(<<XRDEPTHSENSINGFORMAT_L8A8>>,
                                   options.depthSensing[1].dataFormatPreference)]>>
        ELSE <<>>]

\* start() from its checks to the session request, for the session options
\* only: the options it hands to requestSession
StartOptions(t, sp, options, sup) ==
    /\ out' = <<StartCallOut(t, sp, options, sup),
                RequestSessionOut(t, SessionOptions(t, sp, options, sup))>>
    /\ UNCHANGED <<managerVars, cameraVars, hostVars, queries, frameVars, notXr>>

\* ------------------------------------- camera component: scene-map requests
LayerOut(name) == [k |-> "layer", name |-> name]
DebugOut(name) == [k |-> "debug", name |-> name]

\* CameraComponent._enableDepthLayer(value): the calls it makes on the depth
\* layer and its result
EnableDepthLayer(value, hasDepthLayer) ==
    IF hasDepthLayer
    THEN [ok |-> TRUE,
          out |-> <<LayerOut(IF value THEN "incrementCounter"
                                      ELSE "decrementCounter")>>]
    ELSE [ok |-> ~value, out |-> <<>>]

\* a scene-map request counter after requestScene...Map(enabled)
RequestCounter(counter, enabled) == counter + (IF enabled THEN 1 ELSE -1)

\* what requestScene...Map(enabled) invokes; Debug.assert and Debug.warnOnce
\* only log
RequestOut(counter, enabled, hasDepthLayer) ==
    (IF RequestCounter(counter, enabled) >= 0 THEN <<>> ELSE <<DebugOut("assert")>>)
    \o EnableDepthLayer(enabled, hasDepthLayer).out
    \o (IF EnableDepthLayer(enabled, hasDepthLayer).ok THEN <<>>
                                                       ELSE <<DebugOut("warnOnce")>>)

\* the counter values followed: up to MaxRequests requests above or below zero
InRequestRange(counter) == -MaxRequests <= counter /\ counter <= MaxRequests

\* CameraComponent.requestSceneDepthMap(enabled)
RequestSceneDepthMap(enabled, hasDepthLayer) ==
    /\ InRequestRange(RequestCounter(renderSceneDepthMap, enabled))
    /\ renderSceneDepthMap' = RequestCounter(renderSceneDepthMap, enabled)
    /\ out' = RequestOut(renderSceneDepthMap, enabled, hasDepthLayer)
    /\ UNCHANGED <<renderSceneColorMap, sceneDepthMapRequested,
                   sceneColorMapRequested, notComponent>>

\* CameraComponent.requestSceneColorMap(enabled)
RequestSceneColorMap(enabled, hasDepthLayer) ==
    /\ InRequestRange(RequestCounter(renderSceneColorMap, enabled))
    /\ renderSceneColorMap' = RequestCounter(renderSceneColorMap, enabled)
    /\ out' = RequestOut(renderSceneColorMap, enabled, hasDepthLayer)
    /\ UNCHANGED <<renderSceneDepthMap, sceneDepthMapRequested,
                   sceneColorMapRequested, notComponent>>

\* set renderSceneDepthMap(value)
SetRenderSceneDepthMap(value, hasDepthLayer) ==
    /\ IF value /\ ~sceneDepthMapRequested
       THEN /\ InRequestRange(RequestCounter(renderSceneDepthMap, TRUE))
            /\ renderSceneDepthMap' = RequestCounter(renderSceneDepthMap, TRUE)
            /\ out' = RequestOut(renderSceneDepthMap, TRUE, hasDepthLayer)
            /\ sceneDepthMapRequested' = TRUE
       ELSE IF sceneDepthMapRequested
       THEN /\ InRequestRange(RequestCounter(renderSceneDepthMap, FALSE))
            /\ renderSceneDepthMap' = RequestCounter(renderSceneDepthMap, FALSE)
            /\ out' = RequestOut(renderSceneDepthMap, FALSE, hasDepthLayer)
            /\ sceneDepthMapRequested' = FALSE
       ELSE /\ out' = <<>>
            /\ UNCHANGED <<renderSceneDepthMap, sceneDepthMapRequested>>
    /\ UNCHANGED <<renderSceneColorMap, sceneColorMapRequested, notComponent>>

\* set renderSceneColorMap(value)
SetRenderSceneColorMap(value, hasDepthLayer) ==
    /\ IF value /\ ~sceneColorMapRequested
       THEN /\ InRequestRange(RequestCounter(renderSceneColorMap, TRUE))
            /\ renderSceneColorMap' = RequestCounter(renderSceneColorMap, TRUE)
            /\ out' = RequestOut(renderSceneColorMap, TRUE, hasDepthLayer)
            /\ sceneColorMapRequested' = TRUE
       ELSE IF sceneColorMapRequested
       THEN /\ InRequestRange(RequestCounter(renderSceneColorMap, FALSE))
            /\ renderSceneColorMap' = RequestCounter(renderSceneColorMap, FALSE)
            /\ out' = RequestOut(renderSceneColorMap, FALSE, hasDepthLayer)
            /\ sceneColorMapRequested' = FALSE
       ELSE /\ out' = <<>>
            /\ UNCHANGED <<renderSceneColorMap, sceneColorMapRequested>>
    /\ UNCHANGED <<renderSceneDepthMap, sceneDepthMapRequested, notComponent>>

\* ---------------------------------------------------------- specification
Next ==
    \/ \E r \in StartRequests, prepare \in BOOLEAN :
          Start(r[1], r[2], r[3], prepare)
    \/ \E a \in Attempts, ok \in BOOLEAN, prepared \in PreparedImages :
          PrepareImagesDone(a, ok, prepared)
    \/ \E a \in Attempts : RequestSessionResolve(a)
    \/ \E a \in Attempts : RequestSessionReject(a)
    \/ \E a \in Attempts : ReferenceSpaceResolve(a)
    \/ \E a \in Attempts : ReferenceSpaceReject(a)
    \/ \E a \in Attempts : OnEnd(a)
    \/ \E cb \in BOOLEAN : End(cb)
    \/ \E h \in HostAnswers : SessionSupportResolve(h[1], h[2])

Spec == Init /\ [][Next]_vars

\* The support queries, every answer the host can give for every type in any
\* order, next to the calls the application makes before, while and after the
\* first session is set up.
NextAvailability ==
    \/ DeviceAvailabilityCheck
    \/ \E t \in Types, v \in BOOLEAN : SessionSupportResolve(t, v)
    \/ \E t \in Types : SessionSupportReject(t)
    \/ \E r \in ClipRequests : Start(r[1], r[2], r[3], FALSE)
    \/ RequestSessionResolve(1)
    \/ ReferenceSpaceResolve(1)
    \/ End(FALSE)
    \/ Update(<<2, 1>>, 1, 1, {})

SpecAvailability == Init /\ [][NextAvailability]_vars

\* The session lifecycle of one camera whose clip planes the application
\* changes: start() is called for camA only.
NextClip ==
    \/ \E r \in ClipRequests : Start(r[1], r[2], r[3], FALSE)
    \/ \E a \in Attempts : RequestSessionResolve(a)
    \/ \E a \in Attempts : RequestSessionReject(a)
    \/ \E a \in Attempts : ReferenceSpaceResolve(a)
    \/ \E a \in Attempts : ReferenceSpaceReject(a)
    \/ \E a \in Attempts : OnEnd(a)
    \/ End(FALSE)
    \/ SessionSupportResolve(XRTYPE_VR, TRUE)
    \/ \E v \in NearValues : SetClip("camA", "nearClip", v)
    \/ \E v \in FarValues : SetClip("camA", "farClip", v)
    \/ OnClipPlanesChange("camA")

SpecClip == Init /\ [][NextClip]_vars

\* The frames of AR sessions of one camera.
NextFrame ==
    \/ \E r \in FrameRequests : Start(r[1], r[2], r[3], FALSE)
    \/ \E a \in Attempts : RequestSessionResolve(a)
    \/ \E a \in Attempts : RequestSessionReject(a)
    \/ \E a \in Attempts : ReferenceSpaceResolve(a)
    \/ \E a \in Attempts : ReferenceSpaceReject(a)
    \/ \E a \in Attempts : OnEnd(a)
    \/ End(FALSE)
    \/ SessionSupportResolve(XRTYPE_AR, TRUE)
    \/ \E f \in Frames : Update(f[1], f[2], f[3], f[4])

SpecFrame == Init /\ [][NextFrame]_vars

\* The frames of the first session, of any type, from its start to its end;
\* further start() calls may be in flight.
NextUpdate ==
    \/ \E t \in Types : SessionSupportResolve(t, TRUE)
    \/ \E r \in UpdateRequests : Start(r[1], r[2], r[3], FALSE)
    \/ RequestSessionResolve(1)
    \/ ReferenceSpaceResolve(1)
    \/ End(FALSE)
    \/ OnEnd(1)
    \/ \E f \in UpdateFrames : Update(f[1], f[2], f[3], f[4])

SpecUpdate == Init /\ [][NextUpdate]_vars

\* The view list and the pool over the frames of the first two AR sessions of
\* one camera, which the host ends, with poses of every view count.
NextViews ==
    \/ SessionSupportResolve(XRTYPE_AR, TRUE)
    \/ \E r \in FrameRequests : Start(r[1], r[2], r[3], FALSE)
    \/ \E a \in 1..2 : RequestSessionResolve(a)
    \/ \E a \in 1..2 : ReferenceSpaceResolve(a)
    \/ \E a \in 1..2 : OnEnd(a)
    \/ \E f \in ViewFrames : Update(f[1], f[2], f[3], f[4])

SpecViews == Init /\ [][NextViews]_vars

\* ------------------------------------------------------------- AnimClip
\* this._eventHandler.fire(event.name, ...) for the i-th event of the track
EventOut(i) == [k |-> "event", name |-> "event", event |-> i,
                time |-> track.events[i]]
\* this._track.eval(time, this._snapshot)
EvalOut(time) == [k |-> "host", name |-> "eval", time |-> time]

\* JavaScript's a % b on integers: the sign of the dividend; NaN for b = 0,
\* which `|| 0` turns into 0 as it does -0
JsRemOrZero(a, b) ==
    IF b = 0 THEN 0
    ELSE IF a >= 0 THEN a % b ELSE 0 - ((0 - a) % b)

\* alignCursorToCurrentTime(): the first event that is not before time
RECURSIVE AlignCursor(_, _, _)
AlignCursor(events, time, cursor) ==
    IF cursor + 1 <= Len(events) /\ events[cursor + 1] < time
    THEN AlignCursor(events, time, cursor + 1)
    ELSE cursor

\* a frame end that never includes the events at the end of the track
EndNeverInclusive(frameEndTime) == FALSE

\* frameEndTime === this.track.duration: the end of the frame is tested
\* inclusively
EndInclusive(frameEndTime) == frameEndTime = track.duration

\* the while loop of activeEventsForFrame: fires the events from the cursor on
\* that are in the frame
RECURSIVE FireEvents(_, _, _, _)
FireEvents(cursor, frameStartTime, frameEndTime, fired) ==
    IF /\ cursor + 1 <= Len(track.events)
       /\ track.events[cursor + 1] >= frameStartTime
       /\ IF EndInclusive(frameEndTime)
          THEN track.events[cursor + 1] <= frameEndTime
          ELSE track.events[cursor + 1] < frameEndTime
    THEN FireEvents(cursor + 1, frameStartTime, frameEndTime,
                    Append(fired, EventOut(cursor + 1)))
    ELSE [cursor |-> cursor, fired |-> fired]

\* activeEventsForFrame(frameStartTime, frameEndTime): the event cursor it
\* leaves and the events it fires, in order
RECURSIVE ActiveEventsForFrame(_, _, _, _)
ActiveEventsForFrame(cursor, frameStartTime, frameEndTime, fired) ==
    LET clipped == frameEndTime > track.duration
        r == FireEvents(IF frameStartTime = 0 THEN 0 ELSE cursor,
                        frameStartTime,
                        IF clipped THEN track.duration ELSE frameEndTime,
                        fired)
    IN  IF clipped
        THEN ActiveEventsForFrame(r.cursor, 0, frameEndTime - track.duration,
                                  r.fired)
        ELSE r

\* a backward loop that wraps with the mathematical modulus
WrapBackwardFloored(time) ==
    track.duration + (IF track.duration = 0 THEN 0 ELSE time % track.duration)

\* time = (time % duration) || 0, playing forwards
WrapForward(time) == JsRemOrZero(time, track.duration)

\* time = duration + ((time % duration) || 0), playing backwards
WrapBackward(time) == track.duration + JsRemOrZero(time, track.duration)

\* the looping of _update: the time and the playing flag it leaves for the
\* time the cursor was moved to
LoopedTime(time) ==
    IF animClip.speed >= 0
    THEN IF time > track.duration
         THEN IF animClip.loop
              THEN [time |-> WrapForward(time), playing |-> TRUE]
              ELSE [time |-> track.duration, playing |-> FALSE]
         ELSE [time |-> time, playing |-> TRUE]
    ELSE IF time < 0
         THEN IF animClip.loop
              THEN [time |-> WrapBackward(time), playing |-> TRUE]
              ELSE [time |-> 0, playing |-> FALSE]
         ELSE [time |-> time, playing |-> TRUE]

\* how often each event of the track is among the fired ones
FiredCounts(fired) ==
    [i \in 1..Len(track.events) |->
        Cardinality({j \in 1..Len(fired) : fired[j].event = i})]

\* new AnimClip(track, time, speed, playing, loop, eventHandler), with an event
\* handler
NewAnimClip(tr, time, speed, playing, loop) ==
    /\ track' = tr
    /\ animClip' = [time |-> time, speed |-> speed, playing |-> playing,
                loop |-> loop,
                eventCursor |-> AlignCursor(tr.events, time, 0),
                snapshot |-> -1]
    /\ clipLog' = [start |-> time, travelled |-> 0,
                   fired |-> [i \in 1..Len(tr.events) |-> 0]]
    /\ out' = <<>>
    /\ UNCHANGED notAnim

\* AnimClip._update(deltaTime).  The snapshot is evaluated when its time
\* differs from the clip's, and then holds the clip's time.
AnimUpdate(deltaTime) ==
    LET moved == animClip.time + animClip.speed * deltaTime
        travel == IF moved >= animClip.time THEN moved - animClip.time
                                            ELSE animClip.time - moved
        events == IF Len(track.events) > 0 /\ track.duration > 0
                  THEN ActiveEventsForFrame(animClip.eventCursor, animClip.time, moved,
                                            <<>>)
                  ELSE [cursor |-> animClip.eventCursor, fired |-> <<>>]
        looped == LoopedTime(moved)
        time == IF animClip.playing THEN looped.time ELSE animClip.time
        fired == IF animClip.playing THEN events.fired ELSE <<>>
    IN  /\ animClip.playing
           => clipLog.travelled + travel <= MaxTravel
        /\ animClip' = IF animClip.playing
                   THEN [animClip EXCEPT !.time = time,
                                     !.playing = looped.playing,
                                     !.eventCursor = events.cursor,
                                     !.snapshot = time]
                   ELSE [animClip EXCEPT !.snapshot = time]
        /\ clipLog' = IF animClip.playing
                      THEN [clipLog EXCEPT
                               !.travelled = @ + travel,
                               !.fired = [i \in 1..Len(track.events) |->
                                             @[i] + FiredCounts(fired)[i]]]
                      ELSE clipLog
        /\ out' = fired \o (IF time # animClip.snapshot THEN <<EvalOut(time)>>
                                                     ELSE <<>>)
        /\ UNCHANGED <<track, notAnim>>

\* AnimClip.pause()
Pause ==
    /\ animClip' = [animClip EXCEPT !.playing = FALSE]
    /\ out' = <<>>
    /\ UNCHANGED <<track, clipLog, notAnim>>

\* AnimClip.resume()
Resume ==
    /\ animClip' = [animClip EXCEPT !.playing = TRUE]
    /\ out' = <<>>
    /\ UNCHANGED <<track, clipLog, notAnim>>

\* One animation clip at a time, over every track, from every time of the
\* track, at every speed, looping or not.
NextAnim ==
    \/ \E tr \in Tracks, speed \in AnimSpeeds, playing \in BOOLEAN,
          loop \in BOOLEAN :
          \E time \in 0..tr.duration : NewAnimClip(tr, time, speed, playing, loop)
    \/ \E deltaTime \in Deltas : AnimUpdate(deltaTime)
    \/ Pause
    \/ Resume

SpecAnim == Init /\ [][NextAnim]_vars

\* ------------------------------------------------- quads on the device
\* a call of the device that changes none of its draw state
DeviceOut(name) == [k |-> "device", name |-> name]
\* device.draw(primitive) by fn, with the state d the device is in
DrawOut(fn, d) == [k |-> "device", name |-> "draw", by |-> fn, state |-> d]

\* target ? target.width : device.width, and the height likewise
OutputSize(target) == IF target # NoTarget THEN TargetSize[target] ELSE DeviceSize

\* the rectangle drawFullscreenQuad draws to: rect scales the target's size
FullscreenQuadRect(target, rect) ==
    LET size == OutputSize(target)
    IN  IF rect # NoRect
        THEN <<(rect[1] * size[1]) \div 2, (rect[2] * size[2]) \div 2,
               (size[1] * rect[3]) \div 2, (size[2] * rect[4]) \div 2>>
        ELSE <<0, 0, size[1], size[2]>>

\* the viewport drawQuadWithShader draws to: rect is in pixels
ShaderQuadRect(target, rect) ==
    IF rect = NoRect
    THEN <<0, 0, OutputSize(target)[1], OutputSize(target)[2]>>
    ELSE rect

\* the scissor rectangle of drawQuadWithShader
ShaderQuadScissor(target, rect, scissorRect) ==
    IF scissorRect = NoRect THEN ShaderQuadRect(target, rect) ELSE scissorRect

\* the device when drawFullscreenQuad draws: target, viewport and scissor set,
\* blending, depth test and depth write off, no culling, every colour channel
\* written, vertex buffer and shader bound
FullscreenQuadDrawn(d, target, rect) ==
    [d EXCEPT !.renderTarget = target,
              !.viewport = FullscreenQuadRect(target, rect),
              !.scissor = FullscreenQuadRect(target, rect),
              !.blending = FALSE,
              !.depthTest = FALSE,
              !.depthWrite = FALSE,
              !.cullMode = CULLFACE_NONE,
              !.colorWrite = <<TRUE, TRUE, TRUE, TRUE>>,
              !.vertexBuffer = "quad",
              !.shader = "shader"]

\* a restore that leaves blending as the quad set it
FullscreenQuadRestoredKeepingBlending(d, old) ==
    [d EXCEPT !.depthTest = old.depthTest,
              !.depthWrite = old.depthWrite,
              !.cullMode = old.cullMode,
              !.colorWrite = old.colorWrite,
              !.renderTarget = old.renderTarget,
              !.viewport = old.viewport,
              !.scissor = old.scissor]

\* the device after drawFullscreenQuad has put back what it saved from the
\* device old: blending, depth test, depth write, cull mode, colour write,
\* then the render target, then viewport and scissor
FullscreenQuadRestored(d, old) ==
    [d EXCEPT !.blending = old.blending,
              !.depthTest = old.depthTest,
              !.depthWrite = old.depthWrite,
              !.cullMode = old.cullMode,
              !.colorWrite = old.colorWrite,
              !.renderTarget = old.renderTarget,
              !.viewport = old.viewport,
              !.scissor = old.scissor]

\* drawFullscreenQuad(device, target, vertexBuffer, shader, rect).  The
\* device's setters store what they are given; setRenderTarget, updateBegin,
\* updateEnd and draw leave viewport, scissor and the other draw state alone,
\* so that what is saved after them is what the device had before the call.
DrawFullscreenQuad(target, rect) ==
    LET drawn == FullscreenQuadDrawn(device, target, rect)
    IN  /\ device' = FullscreenQuadRestored(drawn, device)
        /\ out' = <<DeviceOut("updateBegin"), DrawOut("drawFullscreenQuad", drawn),
                    DeviceOut("updateEnd"), DeviceOut("updateBegin")>>
        /\ UNCHANGED notDevice

\* the device when drawQuadWithShader draws: blending is switched off unless
\* useBlend, and otherwise left as it is
ShaderQuadDrawn(d, target, rect, scissorRect, useBlend) ==
    [d EXCEPT !.renderTarget = target,
              !.viewport = ShaderQuadRect(target, rect),
              !.scissor = ShaderQuadScissor(target, rect, scissorRect),
              !.depthTest = FALSE,
              !.depthWrite = FALSE,
              !.cullMode = CULLFACE_NONE,
              !.colorWrite = <<TRUE, TRUE, TRUE, TRUE>>,
              !.blending = IF ~useBlend THEN FALSE ELSE @,
              !.vertexBuffer = "quad",
              !.shader = "shader"]

\* the device after drawQuadWithShader has put back what it saved from the
\* device old: depth test, depth write, cull mode, colour write, then the
\* render target, then viewport and scissor
ShaderQuadRestored(d, old) ==
    [d EXCEPT !.depthTest = old.depthTest,
              !.depthWrite = old.depthWrite,
              !.cullMode = old.cullMode,
              !.colorWrite = old.colorWrite,
              !.renderTarget = old.renderTarget,
              !.viewport = old.viewport,
              !.scissor = old.scissor]

\* the steps of drawQuadWithShader on the device d
ShaderQuad(d, fn, target, rect, scissorRect, useBlend) ==
    LET drawn == ShaderQuadDrawn(d, target, rect, scissorRect, useBlend)
    IN  [device |-> ShaderQuadRestored(drawn, d),
         out |-> <<DeviceOut("pushGpuMarker"), DeviceOut("updateBegin"),
                   DrawOut(fn, drawn), DeviceOut("updateEnd"),
                   DeviceOut("updateBegin"), DeviceOut("popGpuMarker")>>]

\* drawQuadWithShader(device, target, shader, rect, scissorRect, useBlend)
DrawQuadWithShader(target, rect, scissorRect, useBlend) ==
    LET r == ShaderQuad(device, "drawQuadWithShader", target, rect, scissorRect,
                        useBlend)
    IN  /\ device' = r.device
        /\ out' = r.out
        /\ UNCHANGED notDevice

\* drawTexture(device, texture, target, shader, rect, scissorRect, useBlend)
DrawTexture(target, rect, scissorRect, useBlend) ==
    LET r == ShaderQuad([device EXCEPT !.texSource = "texture"], "drawTexture",
                        target, rect, scissorRect, useBlend)
    IN  /\ device' = r.device
        /\ out' = r.out
        /\ UNCHANGED notDevice

\* the devices one call of a setter of the draw state leads to from d
DeviceSetters(d) ==
    {[d EXCEPT !.renderTarget = t] : t \in RenderTargets}
    \cup {[d EXCEPT !.viewport = r] : r \in {<<0, 0, 8, 4>>, <<0, 0, 4, 2>>}}
    \cup {[d EXCEPT !.scissor = r] : r \in {<<0, 0, 8, 4>>, <<2, 1, 2, 2>>}}
    \cup {[d EXCEPT !.blending = v] : v \in BOOLEAN}
    \cup {[d EXCEPT !.depthTest = v] : v \in BOOLEAN}
    \cup {[d EXCEPT !.depthWrite = v] : v \in BOOLEAN}
    \cup {[d EXCEPT !.cullMode = v] : v \in {CULLFACE_NONE, CULLFACE_BACK}}
    \cup {[d EXCEPT !.colorWrite = v] :
             v \in {<<TRUE, TRUE, TRUE, TRUE>>, <<TRUE, TRUE, TRUE, FALSE>>}}

\* the application's own call of a setter of the device between two quads
SetDeviceState ==
    /\ device' \in DeviceSetters(device)
    /\ out' = <<>>
    /\ UNCHANGED notDevice

\* Quads drawn on a graphics device in every draw state.
NextDraw ==
    \/ SetDeviceState
    \/ \E target \in RenderTargets, rect \in NormalizedRects :
          DrawFullscreenQuad(target, rect)
    \/ \E target \in RenderTargets, rect \in PixelRects,
          scissorRect \in PixelRects, useBlend \in BOOLEAN :
          DrawQuadWithShader(target, rect, scissorRect, useBlend)
    \/ \E target \in RenderTargets, rect \in PixelRects,
          scissorRect \in PixelRects, useBlend \in BOOLEAN :
          DrawTexture(target, rect, scissorRect, useBlend)

SpecDraw == Init /\ [][NextDraw]_vars

\* The session options of every start() call.
NextOptions ==
    \E t \in Types, sp \in SpaceTypes, options \in StartOptionsSet,
       sup \in SubmoduleFlags : StartOptions(t, sp, options, sup)

SpecOptions == Init /\ [][NextOptions]_vars

\* The scene-map requests of one camera component.
NextCamera ==
    \/ \E enabled \in BOOLEAN, hasDepthLayer \in BOOLEAN :
          RequestSceneDepthMap(enabled, hasDepthLayer)
    \/ \E enabled \in BOOLEAN, hasDepthLayer \in BOOLEAN :
          RequestSceneColorMap(enabled, hasDepthLayer)
    \/ \E value \in BOOLEAN, hasDepthLayer \in BOOLEAN :
          SetRenderSceneDepthMap(value, hasDepthLayer)
    \/ \E value \in BOOLEAN, hasDepthLayer \in BOOLEAN :
          SetRenderSceneColorMap(value, hasDepthLayer)

SpecCamera == Init /\ [][NextCamera]_vars

\* ----------------------------------------------------------------- claims
InSeq(r, seq) == \E i \in 1..Len(seq) : seq[i] = r
Count(r, seq) == Cardinality({i \in 1..Len(seq) : seq[i] = r})
IsEndCallback(r) == r.k = "callback" /\ r.name = "end"

\* a start that has neither ended nor failed: its preparation or session
\* request is pending, or its session exists and has not ended
AttemptOpen(a) ==
    \/ attempts[a].phase \in {"preparing", "requesting"}
    \/ attempts[a].host \in {"live", "ending"}

\* C1: a start() of an available type, called while an earlier start has
\* neither ended nor failed (its session request may still be unsettled), gets
\* 'XR session is already started' in its callback, issues no host request and
\* leaves the bound camera, type, spaceType and session as they were.
C1_SecondStartRejected ==
    [][\A r \in StartRequests, prepare \in BOOLEAN :
          (/\ Start(r[1], r[2], r[3], prepare)
           /\ available[r[2]]
           /\ \E a \in Attempts : AttemptOpen(a))
          => /\ out' = <<CallbackOut("start", 0, ErrAlreadyStarted)>>
             /\ UNCHANGED <<camera, type, spaceType, session>>]_vars

\* C2: when a start's callback is invoked with null, active is true, type and
\* spaceType are the requested ones and the camera's back-reference is set;
\* when a session's end event has been handled, active is false, type,
\* spaceType and the manager's camera are null and the back-reference of the
\* session's camera is cleared; the end of a started session emits 'end' once.
C2_StartAndEndState ==
    [][\A a \in Attempts :
          /\ InSeq(CallbackOut("start", a, NoErr), out')
             => /\ session' # NoSession
                /\ type' = attempts[a].type
                /\ spaceType' = attempts[a].spaceType
                /\ cameraXr'[attempts[a].cam]
          /\ OnEnd(a)
             => /\ session' = NoSession
                /\ type' = NoType
                /\ spaceType' = NoType
                /\ camera' = NoCamera
                /\ ~cameraXr'[attempts[a].cam]
                /\ attempts[a].phase = "started"
                   => Count(FireOut("end", a, NoErr), out') = 1]_vars

\* C3: once a start has failed and its teardown (if any) has run, the
\* back-reference it installed on its camera is absent: at the report of an
\* image preparation failure or of a host rejection, at the end event of a
\* session whose reference-space request failed, and at the report of that
\* failure when the session has ended already; a start that fails at once
\* installs none.
C3_FailedStartLeavesNoBackReference ==
    [][/\ \A a \in Attempts :
            /\ (\/ InSeq(CallbackOut("start", a, ErrImagePreparation), out')
                \/ InSeq(CallbackOut("start", a, ErrNegotiation), out'))
               => ~cameraXr'[attempts[a].cam]
            /\ (OnEnd(a) /\ Failed(a)) => ~cameraXr'[attempts[a].cam]
            /\ (ReferenceSpaceReject(a) /\ attempts[a].host = "ended")
               => ~cameraXr'[attempts[a].cam]
       /\ \A r \in StartRequests, prepare \in BOOLEAN :
            (Start(r[1], r[2], r[3], prepare) /\ StartPrecheck(r[2]) # NoErr)
            => cameraXr' = cameraXr]_vars

\* C4: start() with a type whose availability flag is false invokes the
\* callback with 'XR is not available' and nothing else: no image preparation,
\* no host request, and the manager, the cameras and every start in flight are
\* as before.
C4_UnavailableStartIsNoOp ==
    [][\A r \in StartRequests, prepare \in BOOLEAN :
          (~available[r[2]] /\ Start(r[1], r[2], r[3], prepare))
          => /\ out' = <<CallbackOut("start", 0, ErrNotAvailable)>>
             /\ UNCHANGED <<managerVars, cameraVars, hostVars>>]_vars

\* C4 happens while a session is running on a camera
C4_Witness ==
    /\ out = <<CallbackOut("start", 0, ErrNotAvailable)>>
    /\ session # NoSession
    /\ camera # NoCamera
    /\ cameraXr[camera]

\* C5: while the session handle is set, start() only invokes its callback, with
\* 'XR is not available' for an unavailable type and 'XR session is already
\* started' otherwise; it issues no host request and leaves the session, the
\* reference space, the camera, its back-reference, type, spaceType, the depth
\* range and the views as they were.
C5_StartWhileActiveIsNoOp ==
    [][\A r \in StartRequests, prepare \in BOOLEAN :
          (session # NoSession /\ Start(r[1], r[2], r[3], prepare))
          => /\ out' = <<CallbackOut("start", 0,
                            IF available[r[2]] THEN ErrAlreadyStarted
                                               ELSE ErrNotAvailable)>>
             /\ UNCHANGED <<session, referenceSpace, camera, cameraXr, type,
                            spaceType, depthNear, depthFar, views, attempts>>]_vars

\* C5 happens for a started session whose camera has other clip planes than
\* the camera of the refused start
C5_Witness ==
    /\ out = <<CallbackOut("start", 0, ErrAlreadyStarted)>>
    /\ session # NoSession
    /\ referenceSpace = session
    /\ camera = "camB"
    /\ depthNear = nearClip["camB"]

\* C6: end(callback) with a session set requests the host to end it and
\* registers the callback; at the end event of a session every callback that
\* was registered while it was set is invoked exactly once, and no callback
\* registered for another session is invoked.
C6_EndCallbackOnceAtItsSession ==
    [][/\ \A cb \in BOOLEAN :
            (End(cb) /\ session # NoSession)
            => /\ out' = <<HostOut("end", session)>>
               /\ cb => endOnce' = Append(endOnce, session)
       /\ \A a \in Attempts :
            OnEnd(a)
            => /\ Count(CallbackOut("end", a, NoErr), out')
                  = Cardinality({i \in 1..Len(endOnce) : endOnce[i] = a})
               /\ \A i \in 1..Len(out') : IsEndCallback(out'[i]) => out'[i].s = a
               /\ \A i \in 1..Len(endOnce') : endOnce'[i] # a]_vars

\* C7: end(callback) with no session handle set invokes the callback with
\* 'XR Session is not initialized' and nothing else: no 'end' listener, no host
\* request, no change of the manager, of the cameras or of a start in flight.
C7_EndWithoutSessionIsNoOp ==
    [][\A cb \in BOOLEAN :
          (session = NoSession /\ End(cb))
          => /\ out' = IF cb THEN <<CallbackOut("end", 0, ErrNotInitialized)>>
                             ELSE <<>>
             /\ UNCHANGED <<managerVars, cameraVars, hostVars>>]_vars

\* C7 happens while a start is in flight
C7_Witness ==
    /\ out = <<CallbackOut("end", 0, ErrNotInitialized)>>
    /\ session = NoSession
    /\ \E a \in Attempts : attempts[a].phase = "requesting"
    /\ camera # NoCamera

\* C8: when the reference-space request of session a fails, the manager ends
\* the session, invokes the start callback with the error and emits 'error';
\* no 'end' notification is emitted for that session, neither before the
\* failure nor at its end event; and when its end event has been handled the
\* session, reference space, type, spaceType and camera are null, views is
\* empty, width and height are 0, and no clip-plane listener of the session and
\* no listener on the session is left.
C8_ReferenceSpaceFailureRollsBack ==
    [][\A a \in Attempts :
          /\ ReferenceSpaceReject(a)
             => /\ out' = <<HostOut("end", a),
                            CallbackOut("start", a, ErrReferenceSpace),
                            FireOut("error", a, ErrReferenceSpace)>>
                /\ ~EndedUnstarted(a)
          /\ (OnEnd(a) /\ Failed(a))
             => /\ ~InSeq(FireOut("end", a, NoErr), out')
                /\ session' = NoSession
                /\ referenceSpace' = NoSession
                /\ type' = NoType
                /\ spaceType' = NoType
                /\ camera' = NoCamera
                /\ views' = <<>>
                /\ width' = 0
                /\ height' = 0
                /\ \A c \in Cameras : <<c, a>> \notin clipListeners'
                /\ a \notin sessionListeners']_vars

\* C9: every error that a callback receives is also broadcast as an 'error'
\* notification by the step that reports it.
C9_ErrorsOnBothChannels ==
    \A i \in 1..Len(out) :
        (out[i].k = "callback" /\ out[i].err # NoErr)
        => InSeq(FireOut("error", out[i].s, out[i].err), out)

\* C10: while a session is active, a change of the bound camera's nearClip or
\* farClip issues exactly one updateRenderState, carrying the camera's new clip
\* planes and no base layer; a set_nearClip / set_farClip notification that
\* finds the camera's clip planes equal to the bound depth range issues none.
C10_ClipChangeUpdatesRenderState ==
    [][/\ \A cam \in Cameras, name \in {"nearClip", "farClip"},
            v \in NearValues \cup FarValues :
            (/\ SetClip(cam, name, v)
             /\ session # NoSession
             /\ camera = cam
             /\ <<nearClip'[cam], farClip'[cam]>> # <<nearClip[cam], farClip[cam]>>)
            => out' = <<UpdateRenderStateOut(session, nearClip'[cam],
                                             farClip'[cam], FALSE)>>
       /\ \A cam \in Cameras :
            (/\ OnClipPlanesChange(cam)
             /\ session # NoSession
             /\ camera # NoCamera
             /\ nearClip[camera] = depthNear
             /\ farClip[camera] = depthFar)
            => out' = <<>>]_vars

\* C11: 'available' and 'available:<type>' are emitted only by a completed
\* support query whose result differs from the stored flag; such a query sets
\* the flag first (the listeners read the new value) and then emits the generic
\* notification with (type, available) and the type-specific one with
\* (available), once each and in this order; a query that reports the stored
\* value emits nothing and changes no flag.
C11_AvailableOnlyOnTransition ==
    [][/\ \A t \in Types, v \in BOOLEAN :
            (queries[t] > 0 /\ SessionSupportResolve(t, v))
            => IF available[t] = v
               THEN out' = <<>> /\ available' = available
               ELSE /\ available'[t] = v
                    /\ out' = <<AvailableOut(t, v, v), AvailableTypeOut(t, v, v)>>
       /\ (\E i \in 1..Len(out') :
              out'[i].k = "fire"
              /\ out'[i].name \in {"available"} \cup {"available:" \o t : t \in Types})
          => \E t \in Types, v \in BOOLEAN :
                available[t] # v /\ queries[t] > 0 /\ SessionSupportResolve(t, v)]_vars

\* C11 happens for a flag that falls back to false while another query of the
\* same type is in flight
C11_Witness ==
    /\ out = <<AvailableOut(XRTYPE_AR, FALSE, FALSE),
               AvailableTypeOut(XRTYPE_AR, FALSE, FALSE)>>
    /\ queries[XRTYPE_AR] > 0
    /\ ~available[XRTYPE_AR]

\* C12: every flag is false before a query completes; a support query for type
\* T that completes with a result sets the flag of T to that result and leaves
\* the other flags alone, whatever else is in flight; every other step (issuing
\* queries, a failed query, start, end, update, host events of a session)
\* leaves all flags as they are.
C12_FlagIsLastCompletedQuery ==
    /\ \A t \in Types : ~available[t]
    /\ [][/\ \A t \in Types, v \in BOOLEAN :
               (queries[t] > 0 /\ SessionSupportResolve(t, v))
               => available' = [available EXCEPT ![t] = v]
          /\ (~ \E t \in Types, v \in BOOLEAN :
                    queries[t] > 0 /\ SessionSupportResolve(t, v))
             => available' = available]_vars

\* C12 happens when the flag of a running session's type is withdrawn by one of
\* two queries in flight; the other has not completed
C12_Witness ==
    /\ out = <<AvailableOut(XRTYPE_VR, FALSE, FALSE),
               AvailableTypeOut(XRTYPE_VR, FALSE, FALSE)>>
    /\ session # NoSession
    /\ queries[XRTYPE_VR] = 1
    /\ ~available[XRTYPE_VR]

\* C13: update(frame) returns false when no session is set and when the frame
\* yields no pose for the bound reference space, and then the view list, the
\* pool, the view records, the local pose and the camera node's transform are
\* as before, no sub-module is updated and 'update' is not emitted; when the
\* frame yields a pose for the bound reference space it returns true.
C13_UpdateResult ==
    [][\A f \in Frames :
          ((session = NoSession \/ referenceSpace = session)
           /\ Update(f[1], f[2], f[3], f[4]))
          => IF session = NoSession \/ f[2] = NoPose
             THEN /\ InSeq(ReturnOut(FALSE), out')
                  /\ UNCHANGED <<views, viewsPool, viewData, localPose, nodePose>>
                  /\ \A i \in 1..Len(out') : out'[i].k \notin {"update", "fire"}
             ELSE InSeq(ReturnOut(TRUE), out')]_vars

\* C14: while a session is set, the view records created since it was set
\* number max(0, M - P), M the largest view count of the poses update() has
\* obtained in the session and P the size of the pool when the session was set.
C14_AllocatedViews ==
    session # NoSession
    => allocated - frameLog.allocated0
       = Max(0, frameLog.maxViews - frameLog.pool0)

\* C15: every view record ever created is in the active view list or in the
\* pool.
C15_ViewsNeverDiscarded ==
    \A i \in 1..allocated : i \in Range(views) \cup Range(viewsPool)

\* C16: the options start() passes to the host have requiredFeatures
\* <<spaceType>> and optionalFeatures made of, in order: for AR
\* light-estimation, hit-test, image-tracking iff requested and supported,
\* plane-detection iff requested, dom-overlay iff supported with a root,
\* depth-sensing iff requested and supported; for VR hand-tracking; for inline
\* nothing; then the caller's optionalFeatures.
C16_SessionFeatures ==
    (Len(out) = 2 /\ out[1].k = "call")
    => LET t == out[1].type
           options == out[1].options
           sup == out[1].sup
           opts == out[2].options
       IN  /\ out[2].k = "host" /\ out[2].name = "requestSession"
           /\ out[2].type = t
           /\ opts.requiredFeatures = <<out[1].spaceType>>
           /\ opts.optionalFeatures =
                (CASE t = XRTYPE_AR ->
                        <<"light-estimation", "hit-test">>
                        \o (IF options.imageTracking /\ sup.imageTracking
                            THEN <<"image-tracking">> ELSE <<>>)
                        \o (IF options.planeDetection
                            THEN <<"plane-detection">> ELSE <<>>)
                        \o (IF sup.domOverlay THEN <<"dom-overlay">> ELSE <<>>)
                        \o (IF options.depthSensing # <<>> /\ sup.depthSensing
                            THEN <<"depth-sensing">> ELSE <<>>)
                   [] t = XRTYPE_VR -> <<"hand-tracking">>
                   [] OTHER -> <<>>)
                \o options.optionalFeatures
           /\ (t = XRTYPE_VR /\ out[1].spaceType = "local-floor"
               /\ options.optionalFeatures = <<>>)
              => /\ opts.requiredFeatures = <<"local-floor">>
                 /\ opts.optionalFeatures = <<"hand-tracking">>

\* C16 happens for an AR start that requests and finds everything and passes
\* features of its own
C16_Witness ==
    /\ Len(out) = 2
    /\ out[1].k = "call"
    /\ out[1].type = XRTYPE_AR
    /\ out[2].options.requiredFeatures = <<"local">>
    /\ out[2].options.optionalFeatures =
          <<"light-estimation", "hit-test", "image-tracking", "plane-detection",
            "dom-overlay", "depth-sensing", "hand-tracking", "anchors">>

\* C17: when depth sensing is requested and supported in an AR start, the
\* usagePreference sent is <<'cpu-optimized'>> with the caller's preference, if
\* given, in front and not repeated, and dataFormatPreference is made the same
\* way from <<'luminance-alpha'>>.
C17_DepthSensingPreferences ==
    (/\ Len(out) = 2
     /\ out[1].k = "call"
     /\ out[1].type = XRTYPE_AR
     /\ out[1].options.depthSensing # <<>>
     /\ out[1].sup.depthSensing)
    => LET u == out[1].options.depthSensing[1].usagePreference
           f == out[1].options.depthSensing[1].dataFormatPreference
       IN  out[2].options.depthSensing =
             <<[usagePreference |->
                   IF u \in {NoPref, "cpu-optimized"}
                   THEN <<"cpu-optimized">> ELSE <<u, "cpu-optimized">>,
                dataFormatPreference |->
                   IF f \in {NoPref, "luminance-alpha"}
                   THEN <<"luminance-alpha">> ELSE <<f, "luminance-alpha">>]>>

\* C17 happens for usagePreference 'gpu-optimized'
C17_Witness ==
    /\ Len(out) = 2
    /\ out[1].k = "call"
    /\ out[1].options.depthSensing # <<>>
    /\ out[2].options.depthSensing =
          <<[usagePreference |-> <<"gpu-optimized", "cpu-optimized">>,
             dataFormatPreference |-> <<"luminance-alpha">>]>>

\* C18: the scene depth-map and colour-map request counters are never negative.
C18_RequestCountersNotNegative ==
    renderSceneDepthMap >= 0 /\ renderSceneColorMap >= 0

\* C19: while no session is set (active is false), type, spaceType and camera
\* are null.
C19_NullWhileInactive ==
    session = NoSession
    => type = NoType /\ spaceType = NoType /\ camera = NoCamera

\* C20: an update() that obtains a pose of N views leaves the view list with
\* exactly N entries: a list of L <= N views keeps them and gets N - L more, a
\* list of L > N views gives L - N of them to the pool.
C20_ViewListLength ==
    [][\A f \in Frames :
          (session # NoSession /\ referenceSpace = session /\ f[2] # NoPose
           /\ Update(f[1], f[2], f[3], f[4]))
          => /\ Len(views') = f[3]
             /\ Len(views) <= f[3]
                => SubSeq(views', 1, Len(views)) = views
             /\ Len(views) > f[3]
                => Len(viewsPool') = Len(viewsPool) + Len(views) - f[3]]_vars

\* C21: 'start' and 'end' notifications alternate, beginning with 'start': an
\* 'end' is emitted only for a session whose 'start' was the last notification
\* of the two, and a 'start' only when no started session is waiting for its
\* 'end'.
C21_StartEndAlternate ==
    [][\A a \in Attempts :
          /\ InSeq(FireOut("end", a, NoErr), out')
             => attempts[a].phase = "started"
          /\ InSeq(FireOut("start", a, NoErr), out')
             => \A b \in Attempts : attempts[b].phase # "started"]_vars

\* C22: when the image preparation of a start fails, the callback gets the
\* error, 'error' is emitted and nothing of the start stays pending: no session
\* request is issued for it; when it succeeds, that step issues the one session
\* request of the start, with trackedImages set iff the prepared value is not
\* null; no session request of a start is issued while its preparation is
\* pending or a second time.
C22_ImagePreparation ==
    [][\A a \in Attempts :
          /\ \A prepared \in PreparedImages :
                (attempts[a].phase = "preparing"
                 /\ PrepareImagesDone(a, TRUE, prepared))
                => out' = <<TrackedSessionOut(a, prepared # NoImages)>>
          /\ (attempts[a].phase = "preparing"
              /\ PrepareImagesDone(a, FALSE, NoImages))
             => /\ out' = <<CallbackOut("start", a, ErrImagePreparation),
                            FireOut("error", a, ErrImagePreparation)>>
                /\ attempts'[a] = DoneAttempt
          /\ (\E i \in 1..Len(out') :
                 /\ out'[i].k = "host"
                 /\ out'[i].name = "requestSession"
                 /\ out'[i].s = a)
             => /\ attempts[a].phase \in {"unused", "preparing"}
                /\ attempts'[a].phase = "requesting"
                /\ Cardinality({i \in 1..Len(out') :
                                   /\ out'[i].k = "host"
                                   /\ out'[i].name = "requestSession"}) = 1
                /\ attempts[a].phase = "preparing"
                   => \E prepared \in PreparedImages :
                         PrepareImagesDone(a, TRUE, prepared)]_vars

\* C22 happens when images were prepared to null while another start has its
\* session request pending
C22_Witness ==
    /\ out = <<TrackedSessionOut(2, FALSE)>>
    /\ attempts[1].phase = "requesting"
    /\ attempts[2].phase = "requesting"

\* C23: when the host rejects the session request of a start, the
\* back-reference of the start's camera and the manager's camera are cleared,
\* type and spaceType are null, the callback gets the rejection error and then
\* 'error' is emitted; no session is set, nothing listens to a session or to a
\* camera for this start, and a start() of an available type passes its checks
\* afterwards.
C23_SessionRejected ==
    [][\A a \in Attempts :
          (attempts[a].phase = "requesting" /\ RequestSessionReject(a))
          => /\ out' = <<CallbackOut("start", a, ErrNegotiation),
                         FireOut("error", a, ErrNegotiation)>>
             /\ ~cameraXr'[attempts[a].cam]
             /\ camera' = NoCamera
             /\ type' = NoType
             /\ spaceType' = NoType
             /\ session' = NoSession
             /\ a \notin sessionListeners'
             /\ \A c \in Cameras : <<c, a>> \notin clipListeners'
             /\ \A t \in Types : available'[t] => StartPrecheck(t)' = NoErr]_vars

\* the start callbacks of attempt a that a step invokes
StartCallbacks(a, seq) ==
    {i \in 1..Len(seq) :
        seq[i].k = "callback" /\ seq[i].name = "start" /\ seq[i].s = a}

\* C24: the callback of a start() is invoked exactly once: by the call itself
\* when it fails at once; otherwise by the step that settles the last promise
\* or preparation of the start, and by no other step, so that a start either
\* has something pending or has invoked its callback.
C24_StartCallbackOnce ==
    [][/\ \A r \in StartRequests, prepare \in BOOLEAN :
            (Start(r[1], r[2], r[3], prepare) /\ StartPrecheck(r[2]) # NoErr)
            => Cardinality(StartCallbacks(0, out')) = 1
       /\ \A a \in Attempts :
            LET pending == attempts[a].phase \in {"preparing", "requesting",
                                                  "binding"}
                pending1 == attempts'[a].phase \in {"preparing", "requesting",
                                                    "binding"}
            IN  Cardinality(StartCallbacks(a, out')) =
                   IF pending /\ ~pending1 THEN 1 ELSE 0]_vars

\* C25: when a start callback is invoked with null or 'start' is emitted, a
\* session is set and the reference space of that session is bound.
C25_StartedMeansActive ==
    \A a \in Attempts :
        (\/ InSeq(CallbackOut("start", a, NoErr), out)
         \/ InSeq(FireOut("start", a, NoErr), out))
        => session # NoSession /\ referenceSpace = session

C30_SubmoduleUpdates ==
    [][\A f \in UpdateFrames :
          (session # NoSession /\ Update(f[1], f[2], f[3], f[4])
           /\ InSeq(ReturnOut(TRUE), out'))
          => /\ Count(SubmoduleOut("input"), out') = 1
             /\ \A m \in Range(ArSubmodules) :
                   /\ Count(SubmoduleOut(m), out') <= 1
                   /\ Count(SubmoduleOut(m), out') = 1
                      => attempts[session].type = XRTYPE_AR /\ m \in f[4]]_vars

\* C27: the end event of a session is handled in one step, in this order: the
\* session's clip-plane listeners are removed and the camera and the manager
\* release each other, the session's listeners are removed, 'end' is emitted
\* unless suppressed (its listeners find camera null and active true), session,
\* reference space, views, width, height, type and spaceType are reset, and
\* one tick is scheduled last; afterwards the manager is idle.
C27_TeardownOrder ==
    [][\A a \in Attempts :
          (attempts[a].host \in {"live", "ending"} /\ OnEnd(a))
          => /\ \A c \in Cameras : <<c, a>> \notin clipListeners'
             /\ ~cameraXr'[attempts[a].cam]
             /\ camera' = NoCamera
             /\ a \notin sessionListeners'
             /\ out' = (IF Failed(a)
                        THEN <<>>
                        ELSE <<FireOut("end", a, NoErr),
                               EndObservedOut(NoCamera, TRUE)>> \o EndCallbacks)
                       \o <<HostOut("tick", 0)>>
             /\ session' = NoSession
             /\ referenceSpace' = NoSession
             /\ views' = <<>>
             /\ width' = 0
             /\ height' = 0
             /\ type' = NoType
             /\ spaceType' = NoType]_vars

\* C28: the clip-plane listeners on a camera are those of the session that is
\* set, on the camera that is bound, and no others: while a session is set its
\* listener is on the bound camera (a clip-plane change of that camera runs the
\* handler once), and no listener of an ended session is left on any camera.
C28_ClipListenersLifetime ==
    /\ \A l \in clipListeners : l[2] = session /\ l[1] = camera
    /\ session # NoSession => <<camera, session>> \in clipListeners

\* C29: while a session is set, the depth range last pushed to its render
\* state, which is the manager's depthNear / depthFar, equals the bound
\* camera's nearClip / farClip; every render-state update carries the
\* manager's depth range.
C29_DepthRangeFollowsCamera ==
    /\ \A i \in 1..Len(out) :
          (out[i].k = "host" /\ out[i].name = "updateRenderState")
          => out[i].near = depthNear /\ out[i].far = depthFar
    /\ (session # NoSession /\ camera # NoCamera)
       => depthNear = nearClip[camera] /\ depthFar = farClip[camera]

C32_ResolutionPropagation ==
    [][/\ \A f \in Frames :
             (session # NoSession /\ Update(f[1], f[2], f[3], f[4]))
             => LET res == SetResolutionOut(f[1][1], f[1][2])
                    changed == width # f[1][1] \/ height # f[1][2]
                IN  /\ Count(res, out') = IF changed THEN 1 ELSE 0
                    /\ \A i \in 1..Len(out') :
                          out'[i].name = "setResolution"
                          => i = 1 /\ out'[i] = res
                    /\ width' = f[1][1]
                    /\ height' = f[1][2]
       /\ \A a \in Attempts :
             (attempts[a].phase = "requesting" /\ RequestSessionResolve(a))
             => width' = 0 /\ height' = 0]_vars

\* C33: the active view list and the pool hold no view record twice and have
\* no record in common.
C33_ViewsAndPoolDisjoint ==
    /\ Cardinality(Range(views)) = Len(views)
    /\ Cardinality(Range(viewsPool)) = Len(viewsPool)
    /\ Range(views) \cap Range(viewsPool) = {}

\* C33 happens when a second session takes its views from the pool the first
\* one filled and leaves a record in it
C33_Witness ==
    /\ session = 2
    /\ frameLog.pool0 = 2
    /\ Len(views) = 1
    /\ viewsPool # <<>>
    /\ InSeq(ReturnOut(TRUE), out)

\* C34: an _update of a playing clip whose time is within [0, duration]
\* leaves it there, for every speed, looping or not, and duration 0; a clip
\* that does not loop and is moved beyond duration (forwards) or below 0
\* (backwards) is left at that end and paused; _update leaves the time of a
\* paused clip as it is.
C34_CursorStaysInTrack ==
    [][\A deltaTime \in Deltas :
          (0 <= animClip.time /\ animClip.time <= track.duration
           /\ AnimUpdate(deltaTime))
          => LET moved == animClip.time + animClip.speed * deltaTime
             IN  /\ 0 <= animClip'.time /\ animClip'.time <= track.duration
                 /\ ~animClip.playing => animClip'.time = animClip.time
                 /\ (animClip.playing /\ ~animClip.loop /\ moved > track.duration)
                    => animClip'.time = track.duration /\ ~animClip'.playing
                 /\ (animClip.playing /\ ~animClip.loop /\ moved < 0)
                    => animClip'.time = 0 /\ ~animClip'.playing]_vars

\* C34 happens for a looping clip that one _update moves backwards below 0
C34_Witness ==
    /\ animClip.loop /\ animClip.playing /\ animClip.speed < 0
    /\ track.duration = 3 /\ clipLog.start = 1 /\ clipLog.travelled = 3
    /\ animClip.time = 1
    /\ out = <<EvalOut(1)>>

\* the occurrences of an event at time t of the track between the positions
\* from and to of a cursor that moves forwards and wraps at duration; first
\* and last: whether an occurrence at from or at to counts
Occurrences(t, from, to, first, last) ==
    Cardinality({n \in 0..(to \div track.duration) :
                    LET at == t + n * track.duration
                    IN  /\ IF first THEN from <= at ELSE from < at
                        /\ IF last THEN at <= to ELSE at < to})

\* the descents of a sequence of fired events: an event followed by an
\* earlier one
Descents(fired) ==
    Cardinality({j \in 1..(Len(fired) - 1) : fired[j].time > fired[j + 1].time})

\* C35: a looping clip played forwards over a track of duration > 0 has fired
\* each event once for every time its cursor has passed the event's time
\* since the clip was made (an occurrence at the cursor's position may or may
\* not have been fired yet); one _update fires only events whose time the
\* cursor passes or reaches in that frame, in non-decreasing time order apart
\* from one step back for each wrap of the frame.
C35_EventsOncePerPass ==
    [][\A deltaTime \in Deltas :
          (animClip.loop /\ animClip.speed > 0 /\ track.duration > 0
           /\ animClip.playing /\ AnimUpdate(deltaTime))
          => LET from == clipLog.start + clipLog.travelled
                 to == clipLog'.start + clipLog'.travelled
                 fired == SelectSeq(out', LAMBDA r : r.k = "event")
             IN  /\ \A i \in 1..Len(track.events) :
                       /\ clipLog'.fired[i]
                             >= Occurrences(track.events[i], clipLog.start, to,
                                            TRUE, FALSE)
                       /\ clipLog'.fired[i]
                             <= Occurrences(track.events[i], clipLog.start, to,
                                            TRUE, TRUE)
                       /\ FiredCounts(fired)[i]
                             <= Occurrences(track.events[i], from, to,
                                            TRUE, TRUE)
                 /\ Descents(fired)
                       <= Cardinality({n \in 1..(to \div track.duration) :
                                          from <= n * track.duration
                                          /\ n * track.duration <= to})]_vars

\* C35 happens when one frame takes the cursor over the end of the track to
\* its second pass and fires the events at duration and at 0
C35_Witness ==
    /\ animClip.loop /\ animClip.speed > 0 /\ animClip.playing
    /\ track.duration = 3
    /\ clipLog.start = 0
    /\ clipLog.travelled = 7
    /\ clipLog.fired = <<3, 2, 2>>
    /\ \E i \in 1..(Len(out) - 1) : out[i] = EventOut(3) /\ out[i + 1] = EventOut(1)

\* C36: an _update that moves a playing clip that does not loop forwards
\* beyond the end of the track fires only events whose time is between the
\* time the frame starts at and duration.
C36_NoWrapWithoutLoop ==
    [][\A deltaTime \in Deltas :
          (~animClip.loop /\ animClip.speed > 0 /\ animClip.playing
           /\ animClip.time + animClip.speed * deltaTime > track.duration
           /\ AnimUpdate(deltaTime))
          => \A i \in 1..Len(out') :
                out'[i].k = "event"
                => animClip.time <= out'[i].time
                   /\ out'[i].time <= track.duration]_vars

\* render target, viewport, scissor, blending, depth test, depth write, cull
\* mode and colour write mask of a device
DrawState(d) ==
    <<d.renderTarget, d.viewport, d.scissor, d.blending, d.depthTest,
      d.depthWrite, d.cullMode, d.colorWrite>>

\* C37: drawFullscreenQuad leaves render target, viewport, scissor, blending,
\* depth test, depth write, cull mode and colour write mask of the device as
\* they were before the call, for every target and rect.
C37_FullscreenQuadRestoresState ==
    [][\A target \in RenderTargets, rect \in NormalizedRects :
          DrawFullscreenQuad(target, rect)
          => DrawState(device') = DrawState(device)]_vars

\* C37 happens for a quad drawn to a part of a render target by a device that
\* was blending, testing and writing depth, culling and masking alpha on the
\* frame buffer
C37_Witness ==
    /\ DrawState(device) = <<NoTarget, <<0, 0, 4, 2>>, <<2, 1, 2, 2>>, TRUE, TRUE,
                             TRUE, CULLFACE_BACK, <<TRUE, TRUE, TRUE, FALSE>>>>
    /\ Len(out) = 4
    /\ out[2].name = "draw"
    /\ out[2].by = "drawFullscreenQuad"
    /\ DrawState(out[2].state) = <<"rtA", <<2, 0, 2, 2>>, <<2, 0, 2, 2>>, FALSE,
                                   FALSE, FALSE, CULLFACE_NONE,
                                   <<TRUE, TRUE, TRUE, TRUE>>>>

\* C38: drawQuadWithShader and drawTexture leave render target, viewport,
\* scissor, blending, depth test, depth write, cull mode and colour write mask
\* of the device as they were before the call, with useBlend and without.
C38_ShaderQuadRestoresState ==
    [][\A target \in RenderTargets, rect \in PixelRects,
          scissorRect \in PixelRects, useBlend \in BOOLEAN :
          (\/ DrawQuadWithShader(target, rect, scissorRect, useBlend)
           \/ DrawTexture(target, rect, scissorRect, useBlend))
          => DrawState(device') = DrawState(device)]_vars

\* the outstanding requests a component's own flag stands for
OwnRequests(flag) == IF flag THEN 1 ELSE 0

\* C39: after an assignment of renderSceneDepthMap or renderSceneColorMap the
\* component's own request flag is the value assigned, and the request
\* counter has changed by the difference of the component's own requests: the
\* component contributes one request exactly when the value is true, so that
\* assigning true again changes nothing.
C39_AssignmentTracksValue ==
    [][/\ \A value \in BOOLEAN, hasDepthLayer \in BOOLEAN :
             SetRenderSceneDepthMap(value, hasDepthLayer)
             => /\ sceneDepthMapRequested' = value
                /\ renderSceneDepthMap' - renderSceneDepthMap
                   = OwnRequests(value) - OwnRequests(sceneDepthMapRequested)
       /\ \A value \in BOOLEAN, hasDepthLayer \in BOOLEAN :
             SetRenderSceneColorMap(value, hasDepthLayer)
             => /\ sceneColorMapRequested' = value
                /\ renderSceneColorMap' - renderSceneColorMap
                   = OwnRequests(value) - OwnRequests(sceneColorMapRequested)]_vars

====
